---- MODULE Spec2Model ----
(***************************************************************************)
(* GridSearchCV (surprise/model_selection/search.py): expansion of the     *)
(* parameter grid by the constructor, and fit(): dispatch of one scoring   *)
(* trial per (combination, split) pair through the worker pool, followed   *)
(* by the aggregation of the collected results into the summary            *)
(* attributes.                                                             *)
(*                                                                         *)
(* A dict is a function over its keys.  The parameter grid, whose key      *)
(* order matters, is a sequence of entries [key, values].  The std_*       *)
(* entries of cv_results are not represented.                              *)
(***************************************************************************)
EXTENDS Integers, Sequences, FiniteSets, TLC

VARIABLES
    grid,                \* the param_grid argument of the constructor
    measures_arg,        \* the measures argument of the constructor
    param_grid,          \* self.param_grid
    measures,            \* self.measures
    param_combinations,  \* self.param_combinations
    pc,                  \* "new", "idle", "running", "done", "failed"
    error,               \* what the last fit raised, "none" if nothing
    assigned,            \* the summary attributes that exist on the object
    new_shape,           \* fit's local: (N, cv.get_n_folds())
    fitsLeft,            \* calls of fit() the caller still makes
    splitCalls,          \* calls of cv.split(data) made so far
    splits,              \* tuple(cv.split(data)) held by product()
    nextAlgo,            \* number of algorithm instances constructed so far
    dispatched,          \* trials handed to the pool, in dispatch order
    out,                 \* results collected by Parallel, by position
    scored,              \* what fit_and_score returned, by (params, split)
    overtaken,           \* a trial completed before one dispatched earlier
    test_measures,       \* fit's local: measure -> (N, S) matrix
    fit_times,           \* fit's local: (N, S) matrix
    test_times,          \* fit's local: (N, S) matrix
    before,              \* the summary attributes when fit was entered
    best_index,          \* self.best_index
    best_params,         \* self.best_params
    best_score,          \* self.best_score
    best_estimator,      \* self.best_estimator
    cv_results           \* self.cv_results

vars == <<grid, measures_arg, param_grid, measures, param_combinations, pc,
          error, assigned, new_shape, fitsLeft, splitCalls, splits, nextAlgo, dispatched, out, scored,
          overtaken, test_measures, fit_times, test_times, before,
          best_index, best_params, best_score, best_estimator, cv_results>>

summary == <<assigned, best_index, best_params, best_score, best_estimator, cv_results>>

locals == <<new_shape, test_measures, fit_times, test_times>>

config == <<grid, measures_arg, param_grid, measures, param_combinations>>

----
\* Bounds of the model.

MaxLen == 2        \* longest candidate sequence of a grid key (constructor)
MaxN == 2          \* most candidates of the grid a fit runs on
MaxS == 2          \* most splits cv.split(data) yields
MaxTrials == 4     \* most trials of one fit
MaxInFlight == 2   \* most trials dispatched and not yet completed

Values == {1, 2}
Scores == {1, 2}
Durations == {<<1, 2>>, <<2, 1>>}

----
\* Helpers for sequences and dicts.

Range(s) == {s[i] : i \in 1..Len(s)}

RECURSIVE Flatten(_)
Flatten(ss) == IF ss = <<>> THEN <<>> ELSE Head(ss) \o Flatten(Tail(ss))

RECURSIVE Sum(_)
Sum(s) == IF s = <<>> THEN 0 ELSE Head(s) + Sum(Tail(s))

RECURSIVE Prod(_)
Prod(s) == IF s = <<>> THEN 1 ELSE Head(s) * Prod(Tail(s))

SeqsUpTo(S, n) == UNION {[1..l -> S] : l \in 0..n}

\* dict(zip(keys, v))
DictZip(keys, v) ==
    [k \in Range(keys) |-> v[CHOOSE i \in 1..Len(keys) : keys[i] = k]]

Keys(g) == [i \in 1..Len(g) |-> g[i].key]
Pools(g) == [i \in 1..Len(g) |-> g[i].values]

----
\* The constructor.

\* one round with the loops exchanged: the first pool varies fastest
ProductStepFirstFastest(result, pool) ==
    Flatten([yi \in 1..Len(pool) |->
                [xi \in 1..Len(result) |-> Append(result[xi], pool[yi])]])

\* one round of itertools.product: [x + [y] for x in result for y in pool]
ProductStep(result, pool) ==
    Flatten([xi \in 1..Len(result) |->
                [yi \in 1..Len(pool) |-> Append(result[xi], pool[yi])]])

RECURSIVE ProductFrom(_, _)
ProductFrom(result, pools) ==
    IF pools = <<>> THEN result
    ELSE ProductFrom(ProductStep(result, Head(pools)), Tail(pools))

\* itertools.product(*pools)
product(pools) == ProductFrom(<< <<>> >>, pools)

\* [dict(zip(d, v)) for v in product(*d.values())]
DictProduct(d) ==
    LET tuples == product(Pools(d))
    IN  [q \in 1..Len(tuples) |-> DictZip(Keys(d), tuples[q])]

NestedKeys == {"sim_options", "bsl_options"}

\* the sub-options' candidates taken pairwise instead of crossed
ExpandNestedPairwise(g, name) ==
    [i \in 1..Len(g) |->
        IF g[i].key = name
        THEN LET sub == g[i].values
                 short == CHOOSE n \in 0..MaxLen :
                            /\ \A l \in 1..Len(sub) : n <= Len(sub[l].values)
                            /\ \E l \in 1..Len(sub) : n = Len(sub[l].values)
             IN  [key |-> name,
                  values |-> [r \in 1..short |->
                                DictZip(Keys(sub),
                                        [l \in 1..Len(sub) |-> sub[l].values[r]])]]
        ELSE g[i]]

\* if name in self.param_grid: self.param_grid[name] = <list of dicts>
ExpandNested(g, name) ==
    [i \in 1..Len(g) |->
        IF g[i].key = name
        THEN [key |-> name, values |-> DictProduct(g[i].values)]
        ELSE g[i]]

ExpandedGrid(g) == ExpandNested(ExpandNested(g, "sim_options"), "bsl_options")

\* measure.lower()
Lower(name) ==
    CASE name = "RMSE" -> "rmse"
      [] name = "MAE" -> "mae"
      [] name = "FCP" -> "fcp"
      [] OTHER -> name

LowerAll(ms) == [i \in 1..Len(ms) |-> Lower(ms[i])]


----
\* fit(): dispatch of the trials.

\* product(self.param_combinations, cv.split(data)), splits varying slowest
TrialPairsSplitsOuter(combos, spl) ==
    LET t == product(<<spl, combos>>)
    IN  [p \in 1..Len(t) |-> <<t[p][2], t[p][1]>>]

\* product(self.param_combinations, cv.split(data))
TrialPairs(combos, spl) == product(<<combos, spl>>)

\* self.algo_class(**params): a new instance
NewAlgo(n, params) == [id |-> n + 1, params |-> params]

\* the trials handed to the pool whose fit_and_score has not returned yet
InFlight ==
    {p \in 1..Len(dispatched) :
        <<dispatched[p].algo.params, dispatched[p].split>> \notin DOMAIN scored}

AllCollected ==
    /\ Len(dispatched) = Len(TrialPairs(param_combinations, splits))
    /\ InFlight = {}

\* Parallel hands the results back in completion order
CollectCompletionOrder(o, p, r) == ((Cardinality(DOMAIN o) + 1) :> r) @@ o

\* Parallel hands the results back in the order the trials were submitted
Collect(o, p, r) == (p :> r) @@ o

\* cv = get_cv(self.cv); product(...) drains cv.split(data) once
StartFit ==
    /\ pc \in {"idle", "done", "failed"}
    /\ fitsLeft > 0
    /\ \E s \in 0..MaxS :
        /\ Len(param_combinations) * s <= MaxTrials
        /\ splits' = [j \in 1..s |-> [call |-> splitCalls + 1, idx |-> j]]
    /\ splitCalls' = splitCalls + 1
    /\ fitsLeft' = fitsLeft - 1
    /\ pc' = "running"
    /\ error' = "none"
    /\ dispatched' = <<>>
    /\ out' = <<>>
    /\ scored' = <<>>
    /\ overtaken' = FALSE
    /\ new_shape' = <<>>
    /\ test_measures' = <<>>
    /\ fit_times' = <<>>
    /\ test_times' = <<>>
    /\ before' = summary
    /\ UNCHANGED <<config, nextAlgo, summary>>

\* the pool takes the next delayed(fit_and_score)(algo, trainset, testset, ...)
Dispatch ==
    /\ pc = "running"
    /\ Len(dispatched) < Len(TrialPairs(param_combinations, splits))
    /\ Cardinality(InFlight) < MaxInFlight
    /\ LET pair == TrialPairs(param_combinations, splits)[Len(dispatched) + 1]
       IN  dispatched' = Append(dispatched,
               [algo |-> NewAlgo(nextAlgo, pair[1]), split |-> pair[2]])
    /\ nextAlgo' = nextAlgo + 1
    /\ UNCHANGED <<config, pc, error, fitsLeft, splitCalls, splits, out,
                   scored, overtaken, locals, before, summary>>

\* a worker's fit_and_score returns (test_measures, fit_time, test_time)
Complete ==
    /\ pc = "running"
    /\ \E p \in InFlight :
       \E sc \in [Range(measures) -> Scores] :
       \E d \in Durations :
        LET r == <<sc, d[1], d[2]>>
            t == dispatched[p]
        IN  /\ out' = Collect(out, p, r)
            /\ scored' = (<<t.algo.params, t.split>> :> r) @@ scored
            /\ overtaken' = (overtaken \/ \E q \in InFlight : q < p)
    /\ UNCHANGED <<config, pc, error, fitsLeft, splitCalls, splits, nextAlgo,
                   dispatched, locals, before, summary>>

\* an exception leaves fit() after cv_results was stored on the object
RaisePartial(kind) ==
    /\ pc' = "failed"
    /\ error' = kind
    /\ assigned' = assigned \cup {"cv_results"}
    /\ cv_results' = [params |-> param_combinations]
    /\ UNCHANGED <<best_index, best_params, best_score, best_estimator>>

\* an exception leaves fit(): the assignments of lines 203-207 do not run
Raise(kind) ==
    /\ pc' = "failed"
    /\ error' = kind
    /\ UNCHANGED summary

\* fit_and_score raises in a worker and Parallel re-raises it
TrialRaises ==
    /\ pc = "running"
    /\ InFlight # {}
    /\ Raise("trial")
    /\ UNCHANGED <<config, fitsLeft, splitCalls, splits, nextAlgo, dispatched,
                   out, scored, overtaken, locals, before>>

\* self.algo_class(**params) raises while the generator is consumed
ConstructionRaises ==
    /\ pc = "running"
    /\ Len(dispatched) < Len(TrialPairs(param_combinations, splits))
    /\ Cardinality(InFlight) < MaxInFlight
    /\ Raise("trial")
    /\ UNCHANGED <<config, fitsLeft, splitCalls, splits, nextAlgo, dispatched,
                   out, scored, overtaken, locals, before>>


----
\* fit(): aggregation.

OutList == [p \in 1..Cardinality(DOMAIN out) |-> out[p]]

\* zip(*out): the k-th component of every collected result
Column(list, k) == [p \in 1..Len(list) |-> list[p][k]]

\* a reshape that drops the entries beyond the shape
ReshapeOkTruncating(flat, shape) == Len(flat) >= shape[1] * shape[2]

\* ndarray.reshape raises unless the sizes agree
ReshapeOk(flat, shape) == Len(flat) = shape[1] * shape[2]

\* ndarray.reshape, column-major
ReshapeColumnMajor(flat, shape) ==
    [i \in 1..shape[1] |-> [j \in 1..shape[2] |-> flat[(j - 1) * shape[1] + i]]]

\* ndarray.reshape((N, S)): row-major
Reshape(flat, shape) ==
    [i \in 1..shape[1] |-> [j \in 1..shape[2] |-> flat[(i - 1) * shape[2] + j]]]

\* matrix[:, split]
ColumnOf(matrix, j) == [i \in 1..Len(matrix) |-> matrix[i][j]]

\* a mean is kept as the fraction <<sum, count>>
Mean(row) == <<Sum(row), Len(row)>>

Less(a, b) == a[1] * b[2] < b[1] * a[2]

Same(a, b) == a[1] * b[2] = b[1] * a[2]

\* matrix.mean(axis=1)
MeanAxis1(matrix) == [i \in 1..Len(matrix) |-> Mean(matrix[i])]

RECURSIVE ArgMinFrom(_, _, _)
ArgMinFrom(v, i, best) ==
    IF i > Len(v) THEN best
    ELSE IF Less(v[i], v[best]) THEN ArgMinFrom(v, i + 1, i)
    ELSE ArgMinFrom(v, i + 1, best)

RECURSIVE ArgMaxFrom(_, _, _)
ArgMaxFrom(v, i, best) ==
    IF i > Len(v) THEN best
    ELSE IF Less(v[best], v[i]) THEN ArgMaxFrom(v, i + 1, i)
    ELSE ArgMaxFrom(v, i + 1, best)

\* ndarray.argmin(): the first index of the smallest entry
argmin(v) == ArgMinFrom(v, 2, 1)

\* ndarray.argmax(): the first index of the largest entry
argmax(v) == ArgMaxFrom(v, 2, 1)

Perms(n) == {f \in [1..n -> 1..n] : \A a, b \in 1..n : f[a] = f[b] => a = b}

\* ndarray.argsort() with the default kind, which is not a stable sort: any
\* permutation that puts the entries in ascending order
ArgSorts(v) ==
    {f \in Perms(Len(v)) :
        \A a, b \in 1..Len(v) : a < b => ~Less(v[f[b]], v[f[a]])}

\* rank = np.empty_like(indices); rank[indices] = np.arange(len(indices)) + 1
RankFrom(indices) ==
    [i \in 1..Len(indices) |-> CHOOSE p \in 1..Len(indices) : indices[p] = i]

HasDirection(m) == m \in {"mae", "rmse", "fcp"}

\* argmin whatever the measure
BestIndexAlwaysMin(m, mean) == argmin(mean)

\* if m in ('mae', 'rmse'): argmin  elif m in ('fcp', ): argmax
BestIndex(m, mean) ==
    IF m \in {"mae", "rmse"} THEN argmin(mean) ELSE argmax(mean)

PositionOf(m) == CHOOSE k \in 1..Len(measures) : measures[k] = m

AllAttributes ==
    {"best_index", "best_params", "best_score", "best_estimator", "cv_results"}

\* lines 142-207, once Parallel has returned every result
Aggregate ==
    /\ pc = "running"
    /\ AllCollected
    /\ \E nf \in 0..(MaxS + 1) :
       \E est_ok \in BOOLEAN :
        LET N == Len(param_combinations)
            M == Range(measures)
            shape == <<N, nf>>
        IN  IF OutList = <<>>
            THEN /\ Raise("unpack")
                 /\ UNCHANGED <<locals, nextAlgo>>
            ELSE IF ~ReshapeOk(OutList, shape)
            THEN /\ Raise("reshape")
                 /\ new_shape' = shape
                 /\ UNCHANGED <<test_measures, fit_times, test_times, nextAlgo>>
            ELSE IF \E m \in M : ~HasDirection(m)
            THEN /\ Raise("direction")
                 /\ new_shape' = shape
                 /\ UNCHANGED <<test_measures, fit_times, test_times, nextAlgo>>
            ELSE IF ~est_ok /\ M # {}
            THEN /\ Raise("estimator")
                 /\ new_shape' = shape
                 /\ UNCHANGED <<test_measures, fit_times, test_times, nextAlgo>>
            ELSE
              LET tm == [m \in M |->
                            Reshape([p \in 1..Len(OutList) |-> OutList[p][1][m]],
                                    shape)]
                  ft == Reshape(Column(OutList, 2), shape)
                  tt == Reshape(Column(OutList, 3), shape)
                  mean == [m \in M |-> MeanAxis1(tm[m])]
                  bi == [m \in M |-> BestIndex(m, mean[m])]
              IN  \E indices \in [M -> Perms(N)] :
                    /\ \A m \in M : indices[m] \in ArgSorts(mean[m])
                    /\ new_shape' = shape
                    /\ test_measures' = tm
                    /\ fit_times' = ft
                    /\ test_times' = tt
                    /\ best_index' = bi
                    /\ best_params' = [m \in M |-> param_combinations[bi[m]]]
                    /\ best_score' = [m \in M |-> mean[m][bi[m]]]
                    /\ best_estimator' =
                         [m \in M |-> NewAlgo(nextAlgo + PositionOf(m) - 1,
                                              param_combinations[bi[m]])]
                    /\ nextAlgo' = nextAlgo + Len(measures)
                    /\ cv_results' =
                         [split_test |-> [m \in M |->
                              [j \in 1..nf |-> ColumnOf(tm[m], j)]],
                          mean_test |-> mean,
                          rank_test |-> [m \in M |-> RankFrom(indices[m])],
                          mean_fit_time |-> MeanAxis1(ft),
                          mean_test_time |-> MeanAxis1(tt),
                          params |-> param_combinations]
                    /\ assigned' = AllAttributes
                    /\ pc' = "done"
                    /\ error' = "none"
    /\ UNCHANGED <<config, fitsLeft, splitCalls, splits, dispatched, out,
                   scored, overtaken, before>>

----
\* The constructor and the specifications.

\* __init__
Construct ==
    /\ pc = "new"
    /\ param_grid' = ExpandedGrid(grid)
    /\ measures' = LowerAll(measures_arg)
    /\ param_combinations' = DictProduct(ExpandedGrid(grid))
    /\ pc' = "idle"
    /\ UNCHANGED <<grid, measures_arg, error, fitsLeft, splitCalls, splits,
                   nextAlgo, dispatched, out, scored, overtaken, locals, before,
                   summary>>

NoRun ==
    /\ error = "none"
    /\ splitCalls = 0
    /\ splits = <<>>
    /\ nextAlgo = 0
    /\ dispatched = <<>>
    /\ out = <<>>
    /\ scored = <<>>
    /\ overtaken = FALSE
    /\ new_shape = <<>>
    /\ test_measures = <<>>
    /\ fit_times = <<>>
    /\ test_times = <<>>
    /\ assigned = {}
    /\ best_index = <<>>
    /\ best_params = <<>>
    /\ best_score = <<>>
    /\ best_estimator = <<>>
    /\ cv_results = <<>>
    /\ before = summary

Candidates == SeqsUpTo(Values, MaxLen)

Flat(k) == {[key |-> k, values |-> c] : c \in Candidates}

Nested(k, k1, k2) ==
    {[key |-> k, values |-> <<[key |-> k1, values |-> c1],
                              [key |-> k2, values |-> c2]>>] :
        c1 \in Candidates, c2 \in Candidates}

Sim == Nested("sim_options", "name", "user_based")
Bsl == Nested("bsl_options", "method", "reg")

\* the object is being constructed on a grid of one of these shapes
InitExpand ==
    /\ \/ grid = <<>>
       \/ \E a \in Flat("n_factors") : grid = <<a>>
       \/ \E a \in Flat("n_factors"), b \in Flat("n_epochs") : grid = <<a, b>>
       \/ \E a \in Flat("n_factors"), b \in Flat("n_epochs"),
             c \in Flat("lr_all") : grid = <<a, b, c>>
       \/ \E a \in Sim : grid = <<a>>
       \/ \E a \in Bsl : grid = <<a>>
       \/ \E a \in Flat("k"), b \in Sim : grid = <<a, b>>
       \/ \E a \in Flat("k"), b \in Sim : grid = <<b, a>>
       \/ \E a \in Sim, b \in Bsl : grid = <<a, b>>
    /\ measures_arg = <<"rmse", "mae">>
    /\ param_grid = <<>>
    /\ measures = <<>>
    /\ param_combinations = <<>>
    /\ pc = "new"
    /\ fitsLeft = 0
    /\ NoRun

SpecExpand == InitExpand /\ [][Construct]_vars

FitGrid(n) == << [key |-> "k", values |-> [i \in 1..n |-> i]] >>

MeasureArgs ==
    {<<>>, <<"rmse">>, <<"FCP">>, <<"MAE", "fcp">>, <<"mse">>, <<"rmse", "mse">>}

\* the object as the constructor leaves it
Constructed(g, ms) ==
    /\ grid = g
    /\ measures_arg = ms
    /\ param_grid = ExpandedGrid(g)
    /\ measures = LowerAll(ms)
    /\ param_combinations = DictProduct(ExpandedGrid(g))
    /\ pc = "idle"
    /\ NoRun

Init ==
    /\ \E n \in 0..MaxN : \E ms \in MeasureArgs : Constructed(FitGrid(n), ms)
    /\ fitsLeft = 1

Next ==
    \/ StartFit
    \/ Dispatch
    \/ Complete
    \/ TrialRaises
    \/ ConstructionRaises
    \/ Aggregate

Spec == Init /\ [][Next]_vars

\* the caller runs fit twice on the same object
InitRefit ==
    /\ \E n \in 0..1 : \E ms \in {<<"rmse">>, <<"mse">>} :
          Constructed(FitGrid(n), ms)
    /\ fitsLeft = 2

SpecRefit == InitRefit /\ [][Next]_vars


----
\* Properties.

N_ == Len(param_combinations)
S_ == Len(splits)
M_ == Range(measures)

\* what fit_and_score returned for combination i on split j
Reported(i, j) == scored[<<param_combinations[i], splits[j]>>]

\* C1: after fit, whatever the order in which the pool completed the trials,
\* every results matrix (each measure, fit time, test time) has shape (N, S)
\* and its cell [i, j], as well as cv_results['split<j>_test_<m>'][i], is what
\* the scorer returned for combination i on split j.
C1_CellsAreReportedScores ==
    pc = "done" =>
        /\ new_shape = <<N_, S_>>
        /\ DOMAIN test_measures = M_
        /\ DOMAIN cv_results.split_test = M_
        /\ Len(fit_times) = N_
        /\ Len(test_times) = N_
        /\ \A m \in M_ :
            /\ Len(test_measures[m]) = N_
            /\ DOMAIN cv_results.split_test[m] = 1..S_
        /\ \A i \in 1..N_ :
            /\ Len(fit_times[i]) = S_
            /\ Len(test_times[i]) = S_
            /\ \A m \in M_ : Len(test_measures[m][i]) = S_
            /\ \A j \in 1..S_ :
                /\ fit_times[i][j] = Reported(i, j)[2]
                /\ test_times[i][j] = Reported(i, j)[3]
                /\ \A m \in M_ :
                    /\ test_measures[m][i][j] = Reported(i, j)[1][m]
                    /\ cv_results.split_test[m][j][i] = Reported(i, j)[1][m]

\* a fit of 2 combinations on 2 splits whose trials completed out of order
\* and did not all report the same
C1_Witness ==
    /\ pc = "done"
    /\ overtaken
    /\ N_ = 2
    /\ S_ = 2
    /\ "rmse" \in M_
    /\ test_measures["rmse"][1][2] # test_measures["rmse"][2][1]
    /\ fit_times[1][2] # fit_times[2][1]

\* the mean of measure m that the scorer's reports give combination i
ReportedMean(m, i) == <<Sum([j \in 1..S_ |-> Reported(i, j)[1][m]]), S_>>

\* C2: after a successful fit best_index[m] is the (first) argmin of the
\* mean-score vector for rmse and mae and the (first) argmax for fcp,
\* best_score[m] is the vector's value there and best_params[m] is
\* param_combinations[best_index[m]].
C2_BestIsArgminOrArgmax ==
    pc = "done" =>
        /\ DOMAIN best_index = M_
        /\ DOMAIN best_score = M_
        /\ DOMAIN best_params = M_
        /\ \A m \in M_ :
            LET v == cv_results.mean_test[m]
                b == best_index[m]
            IN  /\ Len(v) = N_
                /\ \A i \in 1..N_ : v[i] = ReportedMean(m, i)
                /\ b \in 1..N_
                /\ m \in {"rmse", "mae"} =>
                      /\ \A i \in 1..N_ : ~Less(v[i], v[b])
                      /\ \A i \in 1..(b - 1) : Less(v[b], v[i])
                /\ m = "fcp" =>
                      /\ \A i \in 1..N_ : ~Less(v[b], v[i])
                      /\ \A i \in 1..(b - 1) : Less(v[i], v[b])
                /\ best_score[m] = v[b]
                /\ best_params[m] = param_combinations[b]

\* mae and fcp were both requested and pick different combinations
C2_Witness ==
    /\ pc = "done"
    /\ M_ = {"mae", "fcp"}
    /\ N_ = 2
    /\ S_ = 2
    /\ best_index["mae"] = 2
    /\ best_index["fcp"] = 1
    /\ Less(best_score["mae"], best_score["fcp"])

IsPermutation(r, n) ==
    /\ DOMAIN r = 1..n
    /\ \A i \in 1..n : r[i] \in 1..n
    /\ \A i, j \in 1..n : r[i] = r[j] => i = j

\* C3: after a successful fit rank_test_<m> is a permutation of 1..N and rank 1
\* goes to a combination with the minimal mean for rmse and mae, and to one
\* with the maximal mean for fcp.
C3_RankOneIsBest ==
    pc = "done" =>
        \A m \in M_ :
            LET v == cv_results.mean_test[m]
                r == cv_results.rank_test[m]
            IN  /\ IsPermutation(r, N_)
                /\ \A i \in 1..N_ : r[i] = 1 =>
                      /\ m \in {"rmse", "mae"} =>
                            \A k \in 1..N_ : ~Less(v[k], v[i])
                      /\ m = "fcp" =>
                            \A k \in 1..N_ : ~Less(v[i], v[k])

\* C4: when a requested measure has no better-direction, fit fails before any
\* trial is dispatched and no best combination is ever recorded.
C4_UnknownMeasureFailsBeforeDispatch ==
    (\E m \in M_ : ~HasDirection(m)) =>
        /\ dispatched = <<>>
        /\ pc # "done"
        /\ assigned = {}

\* the attributes are those of one complete run
Consistent ==
    \/ /\ assigned = {}
       /\ summary = <<{}, <<>>, <<>>, <<>>, <<>>, <<>> >>
    \/ /\ assigned = AllAttributes
       /\ DOMAIN best_index = M_
       /\ DOMAIN best_params = M_
       /\ DOMAIN best_score = M_
       /\ DOMAIN best_estimator = M_
       /\ DOMAIN cv_results.mean_test = M_
       /\ cv_results.params = param_combinations
       /\ \A m \in M_ :
           /\ best_params[m] = cv_results.params[best_index[m]]
           /\ best_score[m] = cv_results.mean_test[m][best_index[m]]
           /\ best_estimator[m].params = best_params[m]

\* C5: a fit that raises (in a trial or while aggregating) assigns none of
\* best_index, best_params, best_score, best_estimator, cv_results: each is
\* as it was when fit was entered, and the attributes are always unset or
\* those of one complete run.
C5_FailureAssignsNothing ==
    /\ pc \in {"running", "failed"} => summary = before
    /\ pc = "failed" <=> error # "none"
    /\ Consistent

\* a second fit failed and the first fit's summary is still there
C5_Witness ==
    /\ pc = "failed"
    /\ fitsLeft = 0
    /\ error \in {"trial", "reshape"}
    /\ out # <<>>
    /\ assigned = AllAttributes
    /\ summary = before

IsFlat(g) == \A i \in 1..Len(g) : g[i].key \notin NestedKeys

Counts(g) == [i \in 1..Len(g) |-> Len(g[i].values)]

\* the product of n[i+1..]
RECURSIVE Weight(_, _)
Weight(n, i) == IF i >= Len(n) THEN 1 ELSE n[i + 1] * Weight(n, i + 1)

\* the index into key i's candidates of the q-th tuple of the cross-product,
\* the last key varying fastest
Digit(n, i, q) == (((q - 1) \div Weight(n, i)) % n[i]) + 1

\* C6: a grid of k flat parameters with n1..nk candidates gives n1*...*nk
\* combinations, each a mapping over exactly the k keys, the q-th being the
\* q-th tuple of the cross-product in grid order with the last key varying
\* fastest; an empty candidate sequence gives no combination and no error.
C6_FlatCrossProduct ==
    (pc = "idle" /\ IsFlat(grid)) =>
        LET n == Counts(grid)
        IN  /\ Len(param_combinations) = Prod(n)
            /\ \A q \in 1..Len(param_combinations) :
                /\ DOMAIN param_combinations[q] = Range(Keys(grid))
                /\ \A i \in 1..Len(grid) :
                    param_combinations[q][grid[i].key]
                        = grid[i].values[Digit(n, i, q)]

\* three flat keys with 2 candidates each, in descending order for the last
C6_Witness ==
    /\ pc = "idle"
    /\ IsFlat(grid)
    /\ Len(grid) = 3
    /\ Len(param_combinations) = 8
    /\ grid[3].values = <<2, 1>>
    /\ param_combinations[2]["lr_all"] = 1

\* an empty candidate sequence next to a non-empty one: no combination
C6_WitnessEmpty ==
    /\ pc = "idle"
    /\ IsFlat(grid)
    /\ Len(grid) = 2
    /\ grid[1].values = <<>>
    /\ Len(grid[2].values) = 2
    /\ param_combinations = <<>>

NestedAt(g) == {i \in 1..Len(g) : g[i].key \in NestedKeys}

Occurrences(list, x) == Cardinality({r \in 1..Len(list) : list[r] = x})

ValuesFor(key) ==
    [q \in 1..Len(param_combinations) |-> param_combinations[q][key]]

\* the expansion of the nested parameter at position i is the m1*m2
\* cross-product of its two sub-options, one value per sub-option name
NestedListIsCrossProduct(i) ==
    LET sub == grid[i].values
        n == Counts(sub)
        list == param_grid[i].values
    IN  /\ Len(list) = n[1] * n[2]
        /\ \A r \in 1..Len(list) :
            /\ DOMAIN list[r] = {sub[1].key, sub[2].key}
            /\ list[r][sub[1].key] = sub[1].values[Digit(n, 1, r)]
            /\ list[r][sub[2].key] = sub[2].values[Digit(n, 2, r)]

Distinct(c) == \A a, b \in 1..Len(c) : c[a] = c[b] => a = b

DistinctSubCandidates(i) ==
    \A l \in 1..Len(grid[i].values) : Distinct(grid[i].values[l].values)

NoEmptyCandidates == \A l \in 1..Len(param_grid) : param_grid[l].values # <<>>

\* C7 as stated: with one nested parameter the expansion gives m1*m2 concrete
\* sub-option mappings and each of them (the sub-options' candidates being
\* distinct and no key being without candidates) is the value for that key
\* of exactly one final combination.
C7_EachMappingExactlyOnce ==
    (pc = "idle" /\ Cardinality(NestedAt(grid)) = 1) =>
        \A i \in NestedAt(grid) :
            /\ NestedListIsCrossProduct(i)
            /\ (DistinctSubCandidates(i) /\ NoEmptyCandidates) => \A r \in 1..Len(param_grid[i].values) :
                Occurrences(ValuesFor(grid[i].key), param_grid[i].values[r]) = 1

\* the product of the candidate counts of the keys other than the i-th
OthersProduct(g, i) ==
    Prod([l \in 1..(Len(g) - 1) |->
             IF l < i THEN Len(g[l].values) ELSE Len(g[l + 1].values)])

\* C7 as amended: with one nested parameter the expansion gives the m1*m2
\* concrete sub-option mappings, and each of them is the value for that key of
\* P final combinations for each time it occurs in the expansion, P being
\* the product of the other keys' candidate counts.
C7_EachMappingOncePerOtherTuple ==
    (pc = "idle" /\ Cardinality(NestedAt(grid)) = 1) =>
        \A i \in NestedAt(grid) :
            /\ NestedListIsCrossProduct(i)
            /\ \A r \in 1..Len(param_grid[i].values) :
                Occurrences(ValuesFor(grid[i].key), param_grid[i].values[r])
                    = OthersProduct(param_grid, i)
                        * Occurrences(param_grid[i].values,
                                      param_grid[i].values[r])

\* k: 2 candidates, sim_options: 2 x 2 distinct sub-option candidates
C7_Witness ==
    /\ pc = "idle"
    /\ Len(grid) = 2
    /\ grid[1].key = "k"
    /\ grid[2].key = "sim_options"
    /\ Len(grid[1].values) = 2
    /\ grid[2].values[1].values = <<1, 2>>
    /\ grid[2].values[2].values = <<2, 1>>
    /\ Len(param_grid[2].values) = 4
    /\ Len(param_combinations) = 8

\* C8: when the number of collected results is not N times the fold count
\* the splitter reports, fit raises and assigns nothing; a fit that succeeds
\* collected exactly N * S results for the S splits the splitter yielded.
C8_CountMismatchFails ==
    /\ (new_shape # <<>> /\ Len(OutList) # new_shape[1] * new_shape[2]) =>
          /\ pc = "failed"
          /\ error = "reshape"
          /\ summary = before
          /\ test_measures = <<>>
          /\ fit_times = <<>>
          /\ test_times = <<>>
    /\ pc = "done" =>
          /\ Len(OutList) = N_ * new_shape[2]
          /\ new_shape[2] = S_

\* the splitter yielded 2 splits and reports 1 or 3 folds
C8_Witness ==
    /\ pc = "failed"
    /\ error = "reshape"
    /\ N_ = 2
    /\ S_ = 2
    /\ Len(OutList) = 4
    /\ new_shape[2] # 2
    /\ assigned = {}

\* ranks in ascending order of the mean, ties in ascending order of the index
StableRank(v) ==
    [i \in 1..Len(v) |->
        1 + Cardinality({k \in 1..Len(v) :
                            \/ Less(v[k], v[i])
                            \/ Same(v[k], v[i]) /\ k < i})]

\* C9: ties in the ranking are broken by ascending index, so that the rank
\* vector is a function of the mean scores alone.
C9_TiesByAscendingIndex ==
    pc = "done" =>
        \A m \in M_ :
            cv_results.rank_test[m] = StableRank(cv_results.mean_test[m])

\* C10: one fit calls cv.split(data) once and dispatches one trial per
\* (combination, split) pair, combinations outer and splits inner, each with
\* an algorithm instance of its own; the trial at inner position j of every
\* combination gets split j of that one call.
C10_OneTrialPerPairOnSharedSplits ==
    pc \in {"running", "done", "failed"} =>
        /\ splitCalls = 1
        /\ \A j \in 1..S_ : splits[j] = [call |-> splitCalls, idx |-> j]
        /\ Len(dispatched) <= N_ * S_
        /\ pc = "done" => Len(dispatched) = N_ * S_
        /\ \A p \in 1..Len(dispatched) :
            /\ dispatched[p].algo.params
                   = param_combinations[((p - 1) \div S_) + 1]
            /\ dispatched[p].split = splits[((p - 1) % S_) + 1]
        /\ \A p, q \in 1..Len(dispatched) :
            dispatched[p].algo.id = dispatched[q].algo.id => p = q

\* 2 combinations on 2 splits, all four trials dispatched and done
C10_Witness ==
    /\ pc = "done"
    /\ N_ = 2
    /\ S_ = 2
    /\ Len(dispatched) = 4
    /\ dispatched[2].split = dispatched[4].split
    /\ dispatched[2].split # dispatched[1].split

====
